---- MODULE Spec2Model ----
(***************************************************************************)
(* Model of the ATS resume screening pipeline: the score parser of the     *)
(* coordinator, the score-encoding placement of qualified resumes, the job *)
(* description parser, and the three-stage workflow (parse_jd,             *)
(* process_resumes, score_and_move) that threads one AgentState through    *)
(* the stages.                                                             *)
(*                                                                         *)
(* Conventions.  Text is a sequence of one-character strings.  A float     *)
(* with at most one decimal is the integer ten times its value (75.0 is    *)
(* 750).  Python None is the string "None" where a text token is expected. *)
(* A character outside ASCII is the one-element string of its code point,  *)
(* "U+2022" for the bullet.                                                *)
(***************************************************************************)
EXTENDS Integers, Sequences, FiniteSets, TLC

(* ------------------------------ bounds -------------------------------- *)

\* number of chunks an enumerated rating response is built from
MaxChunks == 4

\* number of resume files the resume folder holds at most
MaxResumes == 2

\* number of characters of an enumerated text given to clean_text
MaxTextLen == 3

\* number of chunks an enumerated job description is built from
MaxJDChunks == 3

(* --------------------------- characters ------------------------------- *)

Digits == {"0", "1", "2", "3", "4", "5", "6", "7", "8", "9"}

Lowercase ==
  <<"a", "b", "c", "d", "e", "f", "g", "h", "i", "j", "k", "l", "m", "n",
    "o", "p", "q", "r", "s", "t", "u", "v", "w", "x", "y", "z">>

Uppercase ==
  <<"A", "B", "C", "D", "E", "F", "G", "H", "I", "J", "K", "L", "M", "N",
    "O", "P", "Q", "R", "S", "T", "U", "V", "W", "X", "Y", "Z">>

Letters ==
  {Lowercase[i] : i \in DOMAIN Lowercase}
    \cup {Uppercase[i] : i \in DOMAIN Uppercase}

\* \s of the re module
IsSpace(c) == c \in {" ", "\n", "\t"}

\* \d of the re module
IsDigit(c) == c \in Digits

\* \w of the re module
IsWord(c) == c \in Digits \/ c \in Letters \/ c = "_"

DigitVal(c) ==
  CASE c = "0" -> 0 [] c = "1" -> 1 [] c = "2" -> 2 [] c = "3" -> 3
    [] c = "4" -> 4 [] c = "5" -> 5 [] c = "6" -> 6 [] c = "7" -> 7
    [] c = "8" -> 8 [] c = "9" -> 9

DigitChar(d) ==
  CASE d = 0 -> "0" [] d = 1 -> "1" [] d = 2 -> "2" [] d = 3 -> "3"
    [] d = 4 -> "4" [] d = 5 -> "5" [] d = 6 -> "6" [] d = 7 -> "7"
    [] d = 8 -> "8" [] d = 9 -> "9"

RECURSIVE DecimalValue(_)
\* int() / float() of a string of decimal digits
DecimalValue(ds) ==
  IF ds = <<>> THEN 0
  ELSE 10 * DecimalValue(SubSeq(ds, 1, Len(ds) - 1)) + DigitVal(ds[Len(ds)])

RECURSIVE DecimalDigits(_)
\* str() of a natural number
DecimalDigits(n) ==
  IF n < 10 THEN <<DigitChar(n)>>
  ELSE DecimalDigits(n \div 10) \o <<DigitChar(n % 10)>>

Min(a, b) == IF a <= b THEN a ELSE b

Max(a, b) == IF a >= b THEN a ELSE b

(* ------------------- the backtracking matcher of re ------------------- *)
(* A pattern is a sequence of atoms.  Positions are offsets 0..Len(text): *)
(* offset p lies between characters p and p+1.                            *)

ALit(s) == [t |-> "lit", s |-> s]

\* \s*
AWs == [t |-> "ws"]

\* (\d{1,3}), the only capturing group of every pattern
AGrp == [t |-> "grp"]

\* \b
AB == [t |-> "b"]

\* (?!.*\d)
ANoDigitAhead == [t |-> "nla"]

NoMatch == [ok |-> FALSE, lo |-> 0, hi |-> 0]

LitAt(text, p, s) ==
  /\ p + Len(s) <= Len(text)
  /\ \A k \in 1..Len(s) : text[p + k] = s[k]

WordBefore(text, p) == p >= 1 /\ IsWord(text[p])

WordAfter(text, p) == p < Len(text) /\ IsWord(text[p + 1])

\* \b matches where exactly one side is a word character
Boundary(text, p) == WordBefore(text, p) # WordAfter(text, p)

RECURSIVE RunLen(_, _, _)
\* length of the longest run of characters of one class starting after p
RunLen(text, p, cls) ==
  IF p < Len(text) /\ (IF cls = "ws" THEN IsSpace(text[p + 1])
                                     ELSE IsDigit(text[p + 1]))
  THEN 1 + RunLen(text, p + 1, cls)
  ELSE 0

\* .*\d matches at p: some digit follows p before the end of the line
DigitAhead(text, p) ==
  \E j \in (p + 1)..Len(text) :
    /\ IsDigit(text[j])
    /\ \A k \in (p + 1)..(j - 1) : text[k] # "\n"

RECURSIVE MatchFrom(_, _, _, _, _)
RECURSIVE TryRepeat(_, _, _, _, _, _)

\* match atoms k.. of pat at offset p; g is the group captured so far.
\* The result is the first success in the order the backtracking tries.
MatchFrom(text, pat, k, p, g) ==
  IF k > Len(pat) THEN [ok |-> TRUE, lo |-> g[1], hi |-> g[2]]
  ELSE LET a == pat[k] IN
    CASE a.t = "lit" ->
           IF LitAt(text, p, a.s)
           THEN MatchFrom(text, pat, k + 1, p + Len(a.s), g)
           ELSE NoMatch
      [] a.t = "b" ->
           IF Boundary(text, p) THEN MatchFrom(text, pat, k + 1, p, g)
           ELSE NoMatch
      [] a.t = "nla" ->
           IF DigitAhead(text, p) THEN NoMatch
           ELSE MatchFrom(text, pat, k + 1, p, g)
      [] a.t = "ws" ->
           TryRepeat(text, pat, k, p, g, RunLen(text, p, "ws"))
      [] a.t = "grp" ->
           TryRepeat(text, pat, k, p, g, Min(3, RunLen(text, p, "d")))

\* greedy repetition: take n characters, then fewer while the rest fails
TryRepeat(text, pat, k, p, g, n) ==
  LET lowest == IF pat[k].t = "grp" THEN 1 ELSE 0
      g2 == IF pat[k].t = "grp" THEN <<p + 1, p + n>> ELSE g
      r == MatchFrom(text, pat, k + 1, p + n, g2)
  IN IF n < lowest THEN NoMatch
     ELSE IF r.ok THEN r
     ELSE TryRepeat(text, pat, k, p, g, n - 1)

RECURSIVE SearchFrom(_, _, _)
\* re.search: the match at the leftmost offset that has one
SearchFrom(text, pat, p) ==
  IF p > Len(text) THEN NoMatch
  ELSE LET r == MatchFrom(text, pat, 1, p, <<0, 0>>)
       IN IF r.ok THEN r ELSE SearchFrom(text, pat, p + 1)

re_search(pat, text) == SearchFrom(text, pat, 0)

\* match.group(1)
Group1(text, m) == SubSeq(text, m.lo, m.hi)

(* ----------------- Coordinator._parse_score_from_response ------------- *)

LitScore == <<"S", "c", "o", "r", "e", ":">>

LitSlash100 == <<"/", "1", "0", "0">>

LitFinalScore == <<"F", "i", "n", "a", "l", " ">> \o LitScore

LitOutOf100 == <<"o", "u", "t", " ", "o", "f", " ", "1", "0", "0">>

Lit100 == <<"1", "0", "0">>

patterns ==
  << <<ALit(LitScore), AWs, AGrp, ALit(LitSlash100)>>,
     <<AB, ALit(LitFinalScore), AWs, AGrp, AB>>,
     <<AB, AGrp, AWs, ALit(LitOutOf100), AB>>,
     <<AB, AGrp, AWs, ALit(<<"/">>), AWs, ALit(Lit100), AB>>,
     <<AB, AGrp, AB, ANoDigitAhead>> >>

\* the clamp without its upper bound
ClampNoUpper(n) == Max(0, n)

\* max(0, min(100, score))
Clamp(n) == Max(0, Min(100, n))

RECURSIVE ParseFromLast(_, _)
\* the loop trying the patterns from the last to the first
ParseFromLast(text, i) ==
  IF i > Len(patterns) THEN 0
  ELSE LET m == re_search(patterns[Len(patterns) + 1 - i], text)
       IN IF m.ok THEN 10 * Clamp(DecimalValue(Group1(text, m)))
          ELSE ParseFromLast(text, i + 1)

RECURSIVE ParseFrom(_, _)
\* the for loop over patterns, starting at pattern i
ParseFrom(text, i) ==
  IF i > Len(patterns) THEN 0
  ELSE LET m == re_search(patterns[i], text)
       IN IF m.ok THEN 10 * Clamp(DecimalValue(Group1(text, m)))
          ELSE ParseFrom(text, i + 1)

\* the score in tenths
parse_score_from_response(response_text) == ParseFrom(response_text, 1)

(* ------------------------- rating responses --------------------------- *)

TxtScore92 == LitScore \o <<" ", "9", "2">> \o LitSlash100

TxtFinal110 == LitFinalScore \o <<" ", "1", "1", "0">>

TxtNoNumbers ==
  <<"n", "o", " ", "n", "u", "m", "b", "e", "r", "s", " ",
    "h", "e", "r", "e">>

ExampleTexts == {TxtScore92, TxtFinal110, TxtNoNumbers}

Chunks ==
  {LitScore, <<"F", "i", "n", "a", "l", " ">>,
   <<" ", "o", "u", "t", " ", "o", "f", " ">>,
   <<"/">>, <<" ">>, <<"\n">>, <<"7">>, Lit100, <<"x">>}

RECURSIVE Flatten(_)
Flatten(cs) == IF cs = <<>> THEN <<>> ELSE Head(cs) \o Flatten(Tail(cs))

ChunkTexts ==
  {Flatten(cs) : cs \in UNION {[1..n -> Chunks] : n \in 0..MaxChunks}}

(* ------------------------------ values -------------------------------- *)

\* Python None
None == "None"

\* the empty dict; a dict that keeps insertion order is a sequence of
\* <<key, value>> pairs
EmptyDict == <<>>

DictKeys(d) == {d[i][1] : i \in DOMAIN d}

DictGet(d, k) == d[CHOOSE i \in DOMAIN d : d[i][1] = k][2]

\* d[k] = v: a new key is appended, an old key keeps its position
DictSet(d, k, v) ==
  IF k \in DictKeys(d)
  THEN [i \in DOMAIN d |-> IF d[i][1] = k THEN <<k, v>> ELSE d[i]]
  ELSE Append(d, <<k, v>>)

\* list(d.values())
DictValues(d) == [i \in DOMAIN d |-> d[i][2]]

\* metadata is a function from its keys to their values
NoMetadata == [k \in {} |-> None]

\* {**m, k: v}
Put(m, k, v) == [x \in DOMAIN m \cup {k} |-> IF x = k THEN v ELSE m[x]]

\* m.get(k, default)
MetaGet(m, k, default) == IF k \in DOMAIN m THEN m[k] ELSE default

\* a threshold value as Python sees it: a number (in tenths), the float
\* nan, or a value that is no int and no float
Num(v) == [kind |-> "num", v |-> v]

NaN == [kind |-> "nan", v |-> 0]

NotNumeric == [kind |-> "str", v |-> 0]

\* isinstance(x, (int, float))
IsIntOrFloat(x) == x.kind \in {"num", "nan"}

\* x < n and x > n for a float or int x; every comparison with nan is False
PyLess(x, n) == x.kind = "num" /\ x.v < n

PyGreater(x, n) == x.kind = "num" /\ x.v > n

\* n >= x for a number n
PyGeq(n, x) == x.kind = "num" /\ n >= x.v

DEFAULT_THRESHOLD == 750

\* AgentState(...) with the defaults of the fields not given
DefaultAgentState ==
  [jd_content |-> None, resumes |-> <<>>, scores |-> EmptyDict,
   metadata |-> NoMetadata, input |-> None]

\* state.copy(update=u) / state.model_copy(update=u)
model_copy(state, u) ==
  [f \in DOMAIN state |-> IF f \in DOMAIN u THEN u[f] ELSE state[f]]

(* ------------------------------ inputs -------------------------------- *)

\* text of a readable job description
JDText == "JD"

\* the job description files that exist and can be decoded
ReadableFiles == {"jd.txt"}

R1 == <<"i", "n", "/", "r", "1", ".", "p", "d", "f">>

R2 == <<"i", "n", "/", "r", "2", ".", "p", "d", "f">>

R3 == <<"i", "n", "/", "j", "a", "n", "e", "_", "d", "o", "e", ".",
        "p", "d", "f">>

ResumeFiles == {R1, R2, R3}

OutDir == <<"o", "u", "t">>

\* the default of output_dir in the coordinator
FilteredResumes == <<"f", "i", "l", "t", "e", "r", "e", "d", "_",
                     "r", "e", "s", "u", "m", "e", "s">>

\* listings folder.glob can give: distinct files in any order
FolderListings ==
  {fs \in UNION {[1..n -> ResumeFiles] : n \in 0..MaxResumes} :
     \A i, j \in DOMAIN fs : i # j => fs[i] # fs[j]}

TxtScore80 == LitScore \o <<" ", "8", "0">> \o LitSlash100

TxtScore75 == LitScore \o <<" ", "7", "5">> \o LitSlash100

Txt60 == <<"6", "0">> \o LitSlash100

\* what self._llm.invoke can do: raise, or answer with some text
LLMOutcomes ==
  {[raises |-> TRUE, content |-> <<>>]} \cup
  {[raises |-> FALSE, content |-> t] :
     t \in {TxtScore80, TxtFinal110, TxtNoNumbers, TxtScore75, Txt60}}

Thresholds ==
  {Num(0 - 10), Num(0), Num(500), Num(750), Num(1000), Num(1010),
   NaN, NotNumeric}

\* the metadata the callers of ATSWorkflow.invoke build: without a
\* metadata folder and an output directory, or with both
InitialMetadatas ==
  LET base == {[jd_path |-> "jd.txt", resume_folder |-> "in",
                metadata_folder |-> None],
               [jd_path |-> "jd.txt", resume_folder |-> "in",
                metadata_folder |-> "meta", output_dir |-> OutDir],
               [jd_path |-> "missing.txt", resume_folder |-> "in",
                metadata_folder |-> None]}
  IN base \cup
     {Put(m, "score_threshold", t) : m \in base, t \in Thresholds}

(* ------------------ tools.file_manager.move_filtered_resumes ---------- *)

RECURSIVE LastIndexOf(_, _)
LastIndexOf(s, c) ==
  IF s = <<>> THEN 0
  ELSE IF s[Len(s)] = c THEN Len(s)
  ELSE LastIndexOf(SubSeq(s, 1, Len(s) - 1), c)

\* Path(p).name
PathName(p) == SubSeq(p, LastIndexOf(p, "/") + 1, Len(p))

\* dir / name
PathJoin(dir, name) == dir \o <<"/">> \o name

\* f"{score:.1f}" of a non-negative score given in tenths
FormatOneDecimal(score) ==
  DecimalDigits(score \div 10) \o <<".">> \o <<DigitChar(score % 10)>>

\* s.replace(old, new) for single characters
Replace(s, old, new) ==
  [i \in DOMAIN s |-> IF s[i] = old THEN new ELSE s[i]]

\* the score string with its decimal point left in
score_str_dotted(score) == FormatOneDecimal(score)

score_str(score) == Replace(FormatOneDecimal(score), ".", "_")

\* a destination named after the score alone
dest_path_score_only(source, dest, score) ==
  PathJoin(dest, score_str(score) \o <<".", "p", "d", "f">>)

dest_path(source, dest, score) ==
  PathJoin(dest, score_str(score) \o <<"_">> \o PathName(source))

\* what the file system does to the call: "ok", "empty" (a document
\* without pages), "oserror" (fitz.open, mkdir or shutil.move raises: the
\* source is missing, the destination cannot be written)
FsOutcomes == {"ok", "empty", "oserror"}

move_filtered_resumes(source, dest, score, fs) ==
  IF fs = "empty"
  THEN [status |-> "error", message |-> "Empty PDF file",
        destination |-> <<>>]
  ELSE IF fs # "ok"
  THEN [status |-> "error", message |-> fs, destination |-> <<>>]
  ELSE [status |-> "success", message |-> "",
        destination |-> dest_path(source, dest, score)]

(* --------------------------- tools.jd_parser -------------------------- *)

\* str.lower() and str.upper() of one character
LowerChar(c) ==
  IF \E i \in DOMAIN Uppercase : Uppercase[i] = c
  THEN Lowercase[CHOOSE i \in DOMAIN Uppercase : Uppercase[i] = c]
  ELSE c

UpperChar(c) ==
  IF \E i \in DOMAIN Lowercase : Lowercase[i] = c
  THEN Uppercase[CHOOSE i \in DOMAIN Lowercase : Lowercase[i] = c]
  ELSE c

\* text.lower()
lower(text) == [i \in DOMAIN text |-> LowerChar(text[i])]

\* text.title(): a letter after a character that is no letter is made
\* upper case, every other letter lower case
title(text) ==
  [i \in DOMAIN text |->
     IF i = 1 \/ text[i - 1] \notin Letters
     THEN UpperChar(text[i]) ELSE LowerChar(text[i])]

\* the least and the greatest of a set of numbers
SetMin(S) == CHOOSE i \in S : \A j \in S : i <= j

SetMax(S) == CHOOSE i \in S : \A j \in S : i >= j

\* text.strip()
strip(text) ==
  LET keep == {i \in DOMAIN text : ~IsSpace(text[i])}
  IN IF keep = {} THEN <<>>
     ELSE SubSeq(text, SetMin(keep), SetMax(keep))

RECURSIVE rstrip(_, _)
\* text.rstrip(c)
rstrip(text, c) ==
  IF text # <<>> /\ text[Len(text)] = c
  THEN rstrip(SubSeq(text, 1, Len(text) - 1), c)
  ELSE text

\* the index of the first c in text, 0 when there is none
IndexOf(text, c) ==
  IF \E i \in DOMAIN text : text[i] = c
  THEN CHOOSE i \in DOMAIN text :
         text[i] = c /\ \A j \in 1..(i - 1) : text[j] # c
  ELSE 0

RECURSIVE split(_, _)
\* text.split(sep) for a one-character sep
split(text, sep) ==
  LET n == IndexOf(text, sep)
  IN IF n = 0 THEN <<text>>
     ELSE <<SubSeq(text, 1, n - 1)>>
            \o split(SubSeq(text, n + 1, Len(text)), sep)

\* text.splitlines()
splitlines(text) ==
  IF text = <<>> THEN <<>>
  ELSE split(IF text[Len(text)] = "\n"
             THEN SubSeq(text, 1, Len(text) - 1) ELSE text, "\n")

\* the literal s at offset p of text, whatever the case of the letters
LitAtIgnoreCase(text, p, s) ==
  /\ p + Len(s) <= Len(text)
  /\ \A k \in 1..Len(s) : LowerChar(text[p + k]) = LowerChar(s[k])

\* d.get(k, default)
DictGetOr(d, k, default) ==
  IF k \in DictKeys(d) THEN DictGet(d, k) ELSE default

\* the characters clean_text replaces, by code point, with what replaces
\* them, in the order of the dict
replacements ==
  << <<"U+F0B7", <<"-">> >>, <<"U+2022", <<"-">> >>,
     <<"U+25CF", <<"-">> >>, <<"U+200B", <<>> >>,
     <<"U+2013", <<"-">> >>, <<"U+2014", <<"-", "-">> >>,
     <<"U+2018", <<"'">> >>, <<"U+2019", <<"'">> >> >>

RECURSIVE Concat(_, _, _)
\* the texts lo..hi of a sequence of texts, put one after the other
Concat(texts, lo, hi) ==
  IF lo > hi THEN <<>>
  ELSE IF lo = hi THEN texts[lo]
  ELSE Concat(texts, lo, (lo + hi) \div 2)
         \o Concat(texts, (lo + hi) \div 2 + 1, hi)

\* text.replace(old, new) for a one-character old
str_replace(text, old, new) ==
  Concat([i \in DOMAIN text |->
            IF text[i] = old THEN new ELSE <<text[i]>>], 1, Len(text))

RECURSIVE Substitute(_, _)
\* the loop of clean_text over replacements.items(), from entry i on
Substitute(text, i) ==
  IF i > Len(replacements) THEN text
  ELSE Substitute(str_replace(text, replacements[i][1],
                              replacements[i][2]), i + 1)

\* re.sub(r'\s+', ' ', text): a space for the first character of a run of
\* whitespace, nothing for the others
CollapseSpace(text) ==
  Concat([i \in DOMAIN text |->
            IF ~IsSpace(text[i]) THEN <<text[i]>>
            ELSE IF i = 1 \/ ~IsSpace(text[i - 1]) THEN <<" ">>
            ELSE <<>>], 1, Len(text))

\* a clean_text that collapses the whitespace before it substitutes
clean_text_collapse_first(text) ==
  Substitute(strip(CollapseSpace(text)), 1)

clean_text(text) ==
  strip(CollapseSpace(Substitute(text, 1)))

\* the section headers of split_sections, in the order of the pattern
headers ==
  << <<"J", "O", "B", " ", "T", "I", "T", "L", "E", ":">>,
     <<"L", "O", "C", "A", "T", "I", "O", "N", ":">>,
     <<"E", "M", "P", "L", "O", "Y", "M", "E", "N", "T", " ", "T", "Y",
       "P", "E", ":">>,
     <<"C", "O", "M", "P", "A", "N", "Y", " ", "D", "E", "S", "C", "R",
       "I", "P", "T", "I", "O", "N", ":">>,
     <<"K", "E", "Y", " ", "R", "E", "S", "P", "O", "N", "S", "I", "B",
       "I", "L", "I", "T", "I", "E", "S", ":">>,
     <<"R", "E", "Q", "U", "I", "R", "E", "D", " ", "Q", "U", "A", "L",
       "I", "F", "I", "C", "A", "T", "I", "O", "N", "S", ":">>,
     <<"P", "R", "E", "F", "E", "R", "R", "E", "D", " ", "S", "K", "I",
       "L", "L", "S", ":">>,
     <<"T", "E", "C", "H", " ", "S", "T", "A", "C", "K", ":">>,
     <<"B", "E", "N", "E", "F", "I", "T", "S", ":">>,
     <<"H", "O", "W", " ", "T", "O", " ", "A", "P", "P", "L", "Y", ":">> >>

\* the headers that match at offset p of text
HeadersAt(text, p) ==
  {i \in DOMAIN headers : LitAtIgnoreCase(text, p, headers[i])}

RECURSIVE finditer(_, _)
\* re.finditer(pattern, text, flags=re.IGNORECASE) from offset p on: the
\* matches from left to right, each the first alternative that matches
finditer(text, p) ==
  LET found == {q \in p..(Len(text) - 1) : HeadersAt(text, q) # {}}
  IN IF found = {} THEN <<>>
     ELSE LET lo == SetMin(found)
              hi == lo + Len(headers[SetMin(HeadersAt(text, lo))])
          IN <<[lo |-> lo, hi |-> hi]>> \o finditer(text, hi)

RECURSIVE SectionsFrom(_, _, _, _)
\* the loop of split_sections from match i on
SectionsFrom(text, matches, i, sections) ==
  IF i > Len(matches) THEN sections
  ELSE LET start == matches[i].hi
           end == IF i + 1 <= Len(matches) THEN matches[i + 1].lo
                  ELSE Len(text)
           header == lower(rstrip(strip(SubSeq(text, matches[i].lo + 1,
                                               matches[i].hi)), ":"))
           content == strip(SubSeq(text, start + 1, end))
       IN SectionsFrom(text, matches, i + 1,
                       DictSet(sections, header, content))

\* a segmentation that stops after the first header
split_sections_first_header(text) ==
  LET matches == finditer(text, 0)
  IN SectionsFrom(text, IF matches = <<>> THEN matches ELSE <<matches[1]>>,
                  1, EmptyDict)

split_sections(text) ==
  SectionsFrom(text, finditer(text, 0), 1, EmptyDict)

\* the characters parse_section_from_text takes for a bullet
IsBullet(c) == c \in {"-", "U+2022"}

RECURSIVE ItemsFrom(_)
\* the loop of parse_section_from_text
ItemsFrom(lines) ==
  IF lines = <<>> THEN <<>>
  ELSE LET line_clean == strip(Head(lines))
       IN (IF line_clean # <<>> /\ IsBullet(line_clean[1])
           THEN <<SubSeq(line_clean, 2 + RunLen(line_clean, 1, "ws"),
                         Len(line_clean))>>
           ELSE IF line_clean # <<>> THEN <<line_clean>>
           ELSE <<>>) \o ItemsFrom(Tail(lines))

parse_section_from_text(text) == ItemsFrom(splitlines(text))

\* the alternatives of category_pattern
categories ==
  << <<"b", "a", "c", "k", "e", "n", "d">>,
     <<"f", "r", "o", "n", "t", "e", "n", "d">>,
     <<"d", "e", "v", "o", "p", "s">> >>

\* the categories that category_pattern.match finds at the start of a
\* stripped line: the category, a colon, and something after it
CategoriesAt(line) ==
  {i \in DOMAIN categories :
     /\ LitAtIgnoreCase(line, 0, categories[i] \o <<":">>)
     /\ Len(line) > Len(categories[i]) + 1}

\* [t.strip() for t in text.split(',')]
StrippedItems(text) ==
  LET parts == split(text, ",")
  IN [i \in DOMAIN parts |-> strip(parts[i])]

\* tech_stack[category].extend(items)
Extend(stack, category, items) ==
  DictSet(stack, category, DictGetOr(stack, category, <<>>) \o items)

RECURSIVE TechFrom(_, _, _)
\* the loop of extract_tech_stack; no current category is the empty text
TechFrom(lines, current_category, stack) ==
  IF lines = <<>> THEN stack
  ELSE LET line_clean == strip(Head(lines))
           cats == CategoriesAt(line_clean)
       IN IF line_clean = <<>>
          THEN TechFrom(Tail(lines), current_category, stack)
          ELSE IF cats # {}
          THEN LET c == SetMin(cats)
                   after == Len(categories[c]) + 1
                   group2 == SubSeq(line_clean,
                                    after + RunLen(line_clean, after, "ws")
                                      + 1, Len(line_clean))
               IN TechFrom(Tail(lines), categories[c],
                           Extend(stack, categories[c],
                                  StrippedItems(group2)))
          ELSE IF current_category # <<>> /\ line_clean[1] = "-"
          THEN TechFrom(Tail(lines), current_category,
                        Extend(stack, current_category,
                               StrippedItems(Tail(line_clean))))
          ELSE TechFrom(Tail(lines), current_category, stack)

extract_tech_stack(text) == TechFrom(splitlines(text), <<>>, EmptyDict)

\* the alternatives of skill_pattern, in their order
vocabulary ==
  << <<"p", "y", "t", "h", "o", "n">>,
     <<"j", "a", "v", "a">>,
     <<"j", "a", "v", "a", "s", "c", "r", "i", "p", "t">>,
     <<"t", "y", "p", "e", "s", "c", "r", "i", "p", "t">>,
     <<"g", "o">>,
     <<"r", "u", "s", "t">>,
     <<"c", "+", "+">>,
     <<"c", "#">>,
     <<"r", "u", "b", "y">>,
     <<"p", "h", "p">>,
     <<"s", "c", "a", "l", "a">>,
     <<"s", "w", "i", "f", "t">>,
     <<"t", "e", "n", "s", "o", "r", "f", "l", "o", "w">>,
     <<"k", "e", "r", "a", "s">>,
     <<"p", "y", "t", "o", "r", "c", "h">>,
     <<"s", "c", "i", "k", "i", "t", "-", "l", "e", "a", "r", "n">>,
     <<"x", "g", "b", "o", "o", "s", "t">>,
     <<"l", "i", "g", "h", "t", "g", "b", "m">>,
     <<"n", "u", "m", "p", "y">>,
     <<"p", "a", "n", "d", "a", "s">>,
     <<"m", "a", "t", "p", "l", "o", "t", "l", "i", "b">>,
     <<"s", "e", "a", "b", "o", "r", "n">>,
     <<"p", "l", "o", "t", "l", "y">>,
     <<"d", "a", "s", "h">>,
     <<"s", "t", "r", "e", "a", "m", "l", "i", "t">>,
     <<"s", "q", "l">>,
     <<"n", "o", "s", "q", "l">>,
     <<"m", "y", "s", "q", "l">>,
     <<"p", "o", "s", "t", "g", "r", "e", "s", "q", "l">>,
     <<"m", "o", "n", "g", "o", "d", "b">>,
     <<"r", "e", "d", "i", "s">>,
     <<"a", "w", "s">>,
     <<"a", "z", "u", "r", "e">>,
     <<"g", "c", "p">>,
     <<"d", "o", "c", "k", "e", "r">>,
     <<"k", "u", "b", "e", "r", "n", "e", "t", "e", "s">>,
     <<"t", "e", "r", "r", "a", "f", "o", "r", "m">>,
     <<"a", "n", "s", "i", "b", "l", "e">>,
     <<"j", "e", "n", "k", "i", "n", "s">>,
     <<"g", "i", "t">>,
     <<"g", "i", "t", "h", "u", "b">>,
     <<"g", "i", "t", "l", "a", "b">>,
     <<"b", "i", "t", "b", "u", "c", "k", "e", "t">>,
     <<"n", "l", "p">>,
     <<"l", "l", "m">>,
     <<"t", "r", "a", "n", "s", "f", "o", "r", "m", "e", "r", "s">>,
     <<"b", "e", "r", "t">>,
     <<"g", "p", "t">>,
     <<"h", "u", "g", "g", "i", "n", "g", "f", "a", "c", "e">>,
     <<"c", "o", "m", "p", "u", "t", "e", "r", " ", "v", "i", "s", "i",
       "o", "n">>,
     <<"o", "p", "e", "n", "c", "v">>,
     <<"c", "n", "n">>,
     <<"r", "n", "n">>,
     <<"g", "a", "n">>,
     <<"l", "i", "n", "u", "x">>,
     <<"b", "a", "s", "h">>,
     <<"s", "h", "e", "l", "l">>,
     <<"r", "e", "a", "c", "t">>,
     <<"a", "n", "g", "u", "l", "a", "r">>,
     <<"v", "u", "e">>,
     <<"s", "v", "e", "l", "t", "e">>,
     <<"n", "e", "x", "t", ".", "j", "s">>,
     <<"n", "o", "d", "e", ".", "j", "s">>,
     <<"e", "x", "p", "r", "e", "s", "s">>,
     <<"f", "l", "a", "s", "k">>,
     <<"d", "j", "a", "n", "g", "o">> >>

\* the alternatives of skill_pattern that match at offset p of text with
\* a word boundary after them
SkillsAt(text, p) ==
  {i \in DOMAIN vocabulary :
     /\ LitAt(text, p, vocabulary[i])
     /\ Boundary(text, p + Len(vocabulary[i]))}

RECURSIVE findall(_, _)
\* skill_pattern.findall(text) from offset p on, for a lower-case text
findall(text, p) ==
  LET found == {q \in p..(Len(text) - 1) :
                  Boundary(text, q) /\ SkillsAt(text, q) # {}}
  IN IF found = {} THEN <<>>
     ELSE LET lo == SetMin(found)
              skill == vocabulary[SetMin(SkillsAt(text, lo))]
          IN <<skill>> \o findall(text, lo + Len(skill))

\* the sequences that hold every element of a set once
Orders(S) ==
  {f \in [1..Cardinality(S) -> S] :
     \A i, j \in 1..Cardinality(S) : f[i] = f[j] => i = j}

RECURSIVE KeyOrders(_, _)
\* the loop over the qualifications: the keys of required_skills in the
\* orders they can be inserted in, a set being iterated in any order
KeyOrders(quals, keys) ==
  IF quals = <<>> THEN {keys}
  ELSE LET matches == findall(lower(Head(quals)), 0)
           new == {title(matches[i]) : i \in DOMAIN matches}
                    \ {keys[i] : i \in DOMAIN keys}
       IN UNION {KeyOrders(Tail(quals), keys \o order) :
                   order \in Orders(new)}

UndefinedRole ==
  <<"U", "n", "d", "e", "f", "i", "n", "e", "d", " ", "R", "o", "l", "e">>

\* the keys the sections are looked up with
SectionKeys ==
  [job_title |->
     <<"j", "o", "b", " ", "t", "i", "t", "l", "e">>,
   responsibilities |->
     <<"k", "e", "y", " ", "r", "e", "s", "p", "o", "n", "s", "i", "b",
       "i", "l", "i", "t", "i", "e", "s">>,
   qualifications |->
     <<"r", "e", "q", "u", "i", "r", "e", "d", " ", "q", "u", "a", "l",
       "i", "f", "i", "c", "a", "t", "i", "o", "n", "s">>,
   tech_stack |->
     <<"t", "e", "c", "h", " ", "s", "t", "a", "c", "k">>]

\* the body of parse_job_description_content, the keys of required_skills
\* having been inserted in the order keys
parse_result(jd_content, parse_mode, keys) ==
  LET text == clean_text(jd_content)
      sections == split_sections(text)
  IN [job_title |->
        strip(DictGetOr(sections, SectionKeys.job_title, UndefinedRole)),
      required_skills |-> [i \in DOMAIN keys |-> <<keys[i], 0>>],
      mentioned_terms |-> keys,
      responsibilities |->
        parse_section_from_text(
          DictGetOr(sections, SectionKeys.responsibilities, <<>>)),
      qualifications |->
        parse_section_from_text(
          DictGetOr(sections, SectionKeys.qualifications, <<>>)),
      tech_stack |->
        extract_tech_stack(DictGetOr(sections, SectionKeys.tech_stack, <<>>)),
      parse_mode |-> parse_mode]

\* the validator of JDParsingInput
validate_parse_mode(v) == v \in {"full", "skills", "responsibilities"}

\* what invoking the tool parse_job_description_content can give: the
\* input is rejected, or the body returns its record
parse_job_description_content(jd_content, parse_mode) ==
  IF ~validate_parse_mode(parse_mode)
  THEN {[status |-> "rejected", parse_mode |-> parse_mode]}
  ELSE LET quals == parse_section_from_text(
                      DictGetOr(split_sections(clean_text(jd_content)),
                                SectionKeys.qualifications, <<>>))
       IN {[status |-> "success",
            result |-> parse_result(jd_content, parse_mode, keys),
            parse_mode |-> parse_mode] : keys \in KeyOrders(quals, <<>>)}

(* --------------------------- the stages ------------------------------- *)

\* f(**a, **b) raises TypeError when a keyword is given twice
DuplicateKeyword(a, b) == (DOMAIN a \cap DOMAIN b) # {}

\* JDProcessor.process; parseOk: invoking the parsing tool returns
JDProcessor_process(state, parseOk) ==
  LET jd_path == MetaGet(state.metadata, "jd_path", None)
      readOk == jd_path \in ReadableFiles
      dumped == state
      explicit == [jd_content |-> JDText,
                   metadata |-> Put(state.metadata, "parsed_jd", "parsed")]
  IN IF ~readOk \/ ~parseOk \/ DuplicateKeyword(dumped, explicit)
     THEN [state |-> state, raised |-> FALSE]
     ELSE [state |-> model_copy(dumped, explicit), raised |-> FALSE]

\* the resumes that have a metadata file in the metadata folder
MetadataFiles == {R1}

\* load_metadata for the metadata file of a resume
load_metadata(file) ==
  IF file \in MetadataFiles
  THEN [status |-> "success", metadata |-> "loaded"]
  ELSE [status |-> "error", metadata |-> "{}"]

\* a ResumeProcessor.process that builds its result from the resumes alone
ResumeProcessor_process_fresh(state, batch, loadRaises) ==
  [state |-> [DefaultAgentState EXCEPT
                !.resumes = [i \in DOMAIN batch.files |->
                               [text |-> "text", file_path |-> batch.files[i],
                                metadata |-> "{}"]]],
   raised |-> FALSE]

\* ResumeProcessor.process; batch: the result of
\* batch_process_resume_folder ("raise", "error" or the processed files),
\* loadRaises: invoking load_metadata raises
ResumeProcessor_process(state, batch, loadRaises) ==
  LET metadata_folder == MetaGet(state.metadata, "metadata_folder", None)
      lookup == metadata_folder # None /\ metadata_folder # ""
      files == batch.files
      processed ==
        [i \in DOMAIN files |->
           [text |-> "text", file_path |-> files[i],
            metadata |-> IF lookup
                            /\ load_metadata(files[i]).status = "success"
                         THEN load_metadata(files[i]).metadata ELSE "{}"]]
  IN IF batch.status = "raise"
        \/ (batch.status = "success" /\ lookup /\ files # <<>>
            /\ loadRaises)
     THEN [state |-> state, raised |-> FALSE]
     ELSE [state |-> model_copy(state,
             [resumes |-> IF batch.status = "success"
                          THEN processed ELSE <<>>]),
           raised |-> FALSE]

\* _parse_score_from_response of each response of the model, computed once
ResponseScores ==
  [content \in {llm.content : llm \in LLMOutcomes} |->
     parse_score_from_response(content)]

\* _calculate_score without its except clause
calculate_score_unguarded(llm) ==
  IF llm.raises THEN [raised |-> TRUE, score |-> 0]
  ELSE [raised |-> FALSE,
        score |-> parse_score_from_response(llm.content)]

\* Coordinator._calculate_score: the except clause turns a failed rating
\* call into the score 0.0
calculate_score(llm) ==
  IF llm.raises THEN [raised |-> FALSE, score |-> 0]
  ELSE [raised |-> FALSE, score |-> ResponseScores[llm.content]]

\* the test of Coordinator.process that lets a resume be moved
Qualifies(score, metadata) == score > 750

\* the guard asking for both inputs to be missing
MissingBoth(state) ==
  state.jd_content \in {None, ""} /\ state.resumes = <<>>

\* the guard at the start of Coordinator.process
MissingData(state) ==
  state.jd_content \in {None, ""} \/ state.resumes = <<>>

\* an audit list that pairs the scores with the resumes in reverse order
scoring_results_reversed(resumes, scores_dict) ==
  LET vals == DictValues(scores_dict)
      n == Min(Len(resumes), Len(vals))
  IN [i \in 1..n |->
        [file_path |-> resumes[n + 1 - i].file_path, score |-> vals[i],
         metadata |-> IF resumes[n + 1 - i].metadata = "{}" THEN None
                      ELSE resumes[n + 1 - i].metadata]]

\* the audit list built by the return of Coordinator.process:
\* zip(state.resumes, scores_dict.values())
scoring_results(resumes, scores_dict) ==
  LET vals == DictValues(scores_dict)
  IN [i \in 1..Min(Len(resumes), Len(vals)) |->
        [file_path |-> resumes[i].file_path, score |-> vals[i],
         metadata |-> IF resumes[i].metadata = "{}" THEN None
                      ELSE resumes[i].metadata]]

(* ------------------------------ state --------------------------------- *)

VARIABLES
  ptext, pscore, ppc,   \* a call of _parse_score_from_response
  mcall, mresult, mpc,  \* a call of move_filtered_resumes
  pc,                   \* position of ATSWorkflow.invoke
  state,                \* the AgentState passed from stage to stage
  scores_dict, idx,     \* locals of Coordinator.process
  events,               \* what the coordinator has done, in order
  returned,             \* the AgentState the caller of invoke receives
  qualified_count,      \* as computed by invoke
  escaped,              \* an exception left invoke
  stageRaised,          \* a stage's process raised instead of returning
  failed,               \* invoke went through its except clause
  ran,                  \* the nodes the graph has run, in order
  jtext, jmode,         \* a call of parse_job_description_content
  jresult, jpc,
  cleaned,              \* the results of successive calls of clean_text
  jobs,                 \* JobStatus.jobs of the web application
  runs,                 \* the background tasks process_ats_job
  dirs,                 \* the folders of the requests that exist
  served,               \* the number of requests served
  response              \* the last request and the answer it got

pvars == <<ptext, pscore, ppc, mcall, mresult, mpc, jtext, jmode, jresult,
           jpc, cleaned>>

wvars == <<pc, state, scores_dict, idx, events, returned, qualified_count,
           escaped, stageRaised, failed, ran>>

vars == <<ptext, pscore, ppc, mcall, mresult, mpc, pc, state, scores_dict,
          idx, events, returned, qualified_count, escaped, stageRaised,
          failed, ran, jtext, jmode, jresult, jpc, cleaned, jobs, runs,
          dirs, served, response>>

avars == <<jobs, runs, dirs, served, response>>

NoCall == [source |-> <<>>, dest |-> <<>>, score |-> 0, fs |-> "ok"]

NoResult == [status |-> "", message |-> "", destination |-> <<>>]

\* the mover is not called on its own
MoverIdle == mcall = NoCall /\ mresult = NoResult /\ mpc = "idle"

\* the parser is not called on its own
ParserIdle == ptext = <<>> /\ pscore = 0 /\ ppc = "idle"

\* the workflow is not in use
WorkflowIdle ==
  /\ pc = "idle"
  /\ state = DefaultAgentState
  /\ scores_dict = EmptyDict
  /\ idx = 0
  /\ events = <<>>
  /\ returned = DefaultAgentState
  /\ qualified_count = 0
  /\ escaped = FALSE
  /\ stageRaised = FALSE
  /\ failed = FALSE
  /\ ran = <<>>

\* the web application is not in use
NoResponse == [request |-> "", job_id |-> "", status_code |-> 0]

ApiIdle ==
  /\ jobs = NoMetadata
  /\ runs = <<>>
  /\ dirs = {}
  /\ served = 0
  /\ response = NoResponse

\* the job description parser is not called on its own
JDParserIdle ==
  /\ jtext = <<>>
  /\ jmode = "full"
  /\ jresult = [status |-> "none"]
  /\ jpc = "idle"
  /\ cleaned = <<>>

(* -------------------- the score parser on its own --------------------- *)

ParseInit ==
  /\ ApiIdle
  /\ ptext \in ChunkTexts \cup ExampleTexts
  /\ pscore = 0
  /\ ppc = "call"
  /\ MoverIdle
  /\ JDParserIdle
  /\ WorkflowIdle

ParseScore ==
  /\ ppc = "call"
  /\ pscore' = parse_score_from_response(ptext)
  /\ ppc' = "returned"
  /\ UNCHANGED <<ptext, mcall, mresult, mpc, jtext, jmode, jresult, jpc,
                 cleaned, wvars, avars>>

SpecParse == ParseInit /\ [][ParseScore]_vars

(* --------------------- the placement on its own ----------------------- *)

JaneDoe == <<"j", "a", "n", "e", "_", "d", "o", "e", ".", "p", "d", "f">>

MoveSources == ResumeFiles \cup {JaneDoe}

\* the scores of the coordinator lie in [0, 100]; in tenths
MoveScores == 0..(10 * Clamp(100))

MoveInit ==
  /\ ApiIdle
  /\ mcall \in [source : MoveSources, dest : {OutDir, FilteredResumes},
                score : MoveScores, fs : FsOutcomes]
  /\ mresult = NoResult
  /\ mpc = "call"
  /\ ptext = <<>> /\ pscore = 0 /\ ppc = "idle"
  /\ JDParserIdle
  /\ WorkflowIdle

MoveResume ==
  /\ mpc = "call"
  /\ mresult' = move_filtered_resumes(mcall.source, mcall.dest,
                                       mcall.score, mcall.fs)
  /\ mpc' = "returned"
  /\ UNCHANGED <<ptext, pscore, ppc, mcall, jtext, jmode, jresult, jpc,
                 cleaned, wvars, avars>>

SpecMove == MoveInit /\ [][MoveResume]_vars

(* --------------------- clean_text on its own -------------------------- *)

\* the texts of the replaced characters, the whitespace, and ordinary
\* characters
CleanTexts ==
  UNION {[1..n -> {replacements[i][1] : i \in DOMAIN replacements}
                    \cup {" ", "\n", "\t", "a", "-"}] :
           n \in 0..MaxTextLen}

CleanInit ==
  /\ ApiIdle
  /\ jtext \in CleanTexts
  /\ jmode = "full"
  /\ jresult = [status |-> "none"]
  /\ jpc = "clean"
  /\ cleaned = <<>>
  /\ ParserIdle
  /\ MoverIdle
  /\ WorkflowIdle

\* clean_text is called on the text, then on what it returned
CleanText ==
  /\ jpc = "clean"
  /\ Len(cleaned) < 2
  /\ cleaned' = Append(cleaned,
                       clean_text(IF cleaned = <<>> THEN jtext
                                  ELSE cleaned[Len(cleaned)]))
  /\ UNCHANGED <<ptext, pscore, ppc, mcall, mresult, mpc, jtext, jmode,
                 jresult, jpc, wvars, avars>>

SpecClean == CleanInit /\ [][CleanText]_vars

(* ------------- parse_job_description_content on its own --------------- *)

\* the pieces the enumerated job descriptions are made of: title lines,
\* section headers, bullet lines, skills with and without years
JDChunks ==
  {<<"J", "O", "B", " ", "T", "I", "T", "L", "E", ":", " ", "D", "a", "t",
     "a", " ", "E", "n", "g", "i", "n", "e", "e", "r", "\n">>,
   <<"D", "a", "t", "a", " ", "E", "n", "g", "i", "n", "e", "e", "r",
     "\n">>,
   <<"K", "E", "Y", " ", "R", "E", "S", "P", "O", "N", "S", "I", "B", "I",
     "L", "I", "T", "I", "E", "S", ":", "\n">>,
   <<"U+2022", " ", "B", "u", "i", "l", "d", " ", "A", "P", "I", "s",
     "\n">>,
   <<"-", " ", "R", "e", "v", "i", "e", "w", " ", "c", "o", "d", "e",
     "\n">>,
   <<"R", "e", "q", "u", "i", "r", "e", "d", " ", "Q", "u", "a", "l", "i",
     "f", "i", "c", "a", "t", "i", "o", "n", "s", ":", "\n">>,
   <<"-", " ", "P", "y", "t", "h", "o", "n", ":", " ", "5", "\n">>,
   <<"-", " ", "P", "y", "t", "h", "o", "n", ":", " ", "3", "\n">>,
   <<"-", " ", "S", "Q", "L", " ", "a", "n", "d", " ", "D", "o", "c", "k",
     "e", "r", "\n">>,
   <<"T", "E", "C", "H", " ", "S", "T", "A", "C", "K", ":", "\n", "B", "a",
     "c", "k", "e", "n", "d", ":", " ", "G", "o", ",", " ", "R", "e", "d",
     "i", "s", "\n">>}

\* a job description with a title line, three responsibilities and
\* a skill named twice with years
JDExample ==
  <<"S", "e", "n", "i", "o", "r", " ", "B", "a", "c", "k", "e", "n", "d",
    " ", "E", "n", "g", "i", "n", "e", "e", "r", "\n", "K", "E", "Y", " ",
    "R", "E", "S", "P", "O", "N", "S", "I", "B", "I", "L", "I", "T", "I",
    "E", "S", ":", "\n", "U+2022", " ", "B", "u", "i", "l", "d", " ", "A",
    "P", "I", "s", "\n", "U+2022", " ", "R", "e", "v", "i", "e", "w", " ",
    "c", "o", "d", "e", "\n", "U+2022", " ", "M", "e", "n", "t", "o", "r",
    " ", "j", "u", "n", "i", "o", "r", "s", "\n", "R", "E", "Q", "U", "I",
    "R", "E", "D", " ", "Q", "U", "A", "L", "I", "F", "I", "C", "A", "T",
    "I", "O", "N", "S", ":", "\n", "-", " ", "P", "y", "t", "h", "o", "n",
    ":", " ", "5", "\n", "-", " ", "D", "o", "c", "k", "e", "r", "\n", "-",
    " ", "P", "y", "t", "h", "o", "n", ":", " ", "3", "\n">>

JDTexts ==
  {Flatten(cs) : cs \in UNION {[1..n -> JDChunks] : n \in 0..MaxJDChunks}}
    \cup {JDExample}

ParseModes == {"full", "skills", "responsibilities", "summary"}

JDInit ==
  /\ ApiIdle
  /\ jtext \in JDTexts
  /\ jmode \in ParseModes
  /\ jresult = [status |-> "none"]
  /\ jpc = "call"
  /\ cleaned = <<>>
  /\ ParserIdle
  /\ MoverIdle
  /\ WorkflowIdle

\* the tool is invoked with the text and the mode
ParseJobDescription ==
  /\ jpc = "call"
  /\ jresult' \in parse_job_description_content(jtext, jmode)
  /\ jpc' = "returned"
  /\ UNCHANGED <<ptext, pscore, ppc, mcall, mresult, mpc, jtext, jmode,
                 cleaned, wvars, avars>>

SpecJD == JDInit /\ [][ParseJobDescription]_vars

\* ---- split_sections applied to a text ----

SplitInit ==
  /\ ApiIdle
  /\ jtext \in JDTexts
  /\ jmode = "full"
  /\ jresult = [status |-> "none"]
  /\ jpc = "split"
  /\ cleaned = <<>>
  /\ ParserIdle
  /\ MoverIdle
  /\ WorkflowIdle

\* split_sections is called with the text and returns its mapping
SplitSections ==
  /\ jpc = "split"
  /\ jresult' = [status |-> "sections", sections |-> split_sections(jtext)]
  /\ jpc' = "returned"
  /\ UNCHANGED <<ptext, pscore, ppc, mcall, mresult, mpc, jtext, jmode,
                 cleaned, wvars, avars>>

SpecSplit == SplitInit /\ [][SplitSections]_vars

(* ---------------------------- the workflow ---------------------------- *)

Init ==
  /\ ApiIdle
  /\ ParserIdle
  /\ MoverIdle
  /\ JDParserIdle
  /\ pc = "invoke"
  /\ state \in {[DefaultAgentState EXCEPT !.jd_content = jd,
                                          !.metadata = m] :
                  jd \in {None, "", JDText}, m \in InitialMetadatas}
  /\ scores_dict = EmptyDict
  /\ idx = 0
  /\ events = <<>>
  /\ returned = DefaultAgentState
  /\ qualified_count = 0
  /\ escaped = FALSE
  /\ stageRaised = FALSE
  /\ failed = FALSE
  /\ ran = <<>>

\* the threshold check of ATSWorkflow.invoke
checked_metadata(metadata) ==
  IF "score_threshold" \in DOMAIN metadata
  THEN LET threshold == metadata["score_threshold"]
       IN IF ~IsIntOrFloat(threshold) \/ PyLess(threshold, 0)
             \/ PyGreater(threshold, 1000)
          THEN Put(metadata, "score_threshold", Num(DEFAULT_THRESHOLD))
          ELSE metadata
  ELSE Put(metadata, "score_threshold", Num(DEFAULT_THRESHOLD))

\* the graph built by _build_graph: its entry point and its edges
ENTRY == "parse_jd"

\* END of the graph: graph.invoke returns to invoke
END == "wrap"

\* a graph whose first edge leads past process_resumes
NextNodeSkipping(node) ==
  CASE node = "parse_jd" -> "score_and_move"
    [] node = "process_resumes" -> "score_and_move"
    [] node = "score_and_move" -> END

NextNode(node) ==
  CASE node = "parse_jd" -> "process_resumes"
    [] node = "process_resumes" -> "score_and_move"
    [] node = "score_and_move" -> END

ThresholdCheck ==
  /\ pc = "invoke"
  /\ state' = [state EXCEPT !.metadata = checked_metadata(state.metadata)]
  /\ pc' = ENTRY
  /\ UNCHANGED <<avars, pvars, scores_dict, idx, events, returned,
                 qualified_count, escaped, stageRaised, failed, ran>>

\* a stage has returned or raised: the graph goes on, or the exception
\* reaches the except clause of invoke
AfterStage(r, next) ==
  /\ state' = r.state
  /\ stageRaised' = (stageRaised \/ r.raised)
  /\ pc' = IF r.raised THEN "except" ELSE next

ParseJD ==
  /\ pc = "parse_jd"
  /\ \E parseOk \in BOOLEAN :
       AfterStage(JDProcessor_process(state, parseOk),
                  NextNode("parse_jd"))
  /\ ran' = Append(ran, "parse_jd")
  /\ UNCHANGED <<avars, pvars, scores_dict, idx, events, returned,
                 qualified_count, escaped, failed>>

BatchResults ==
  {[status |-> "raise", files |-> <<>>],
   [status |-> "error", files |-> <<>>]} \cup
  {[status |-> "success", files |-> fs] : fs \in FolderListings}

ProcessResumes ==
  /\ pc = "process_resumes"
  /\ \E batch \in BatchResults, loadRaises \in BOOLEAN :
       AfterStage(ResumeProcessor_process(state, batch, loadRaises),
                  NextNode("process_resumes"))
  /\ ran' = Append(ran, "process_resumes")
  /\ UNCHANGED <<avars, pvars, scores_dict, idx, events, returned,
                 qualified_count, escaped, failed>>

\* Coordinator.process up to its loop
CoordinatorEnter ==
  /\ pc = "score_and_move"
  /\ IF MissingData(state)
     THEN AfterStage([state |-> model_copy(state, [scores |-> EmptyDict]),
                      raised |-> FALSE], NextNode("score_and_move"))
     ELSE /\ pc' = "scoring"
          /\ UNCHANGED <<state, stageRaised>>
  /\ scores_dict' = EmptyDict
  /\ idx' = 1
  /\ ran' = Append(ran, "score_and_move")
  /\ UNCHANGED <<avars, pvars, events, returned, qualified_count, escaped,
                 failed>>

Event(e, file, score, status, content, destination) ==
  [ev |-> e, file |-> file, score |-> score, status |-> status,
   content |-> content, destination |-> destination]

\* Coordinator._move_qualified_resume: toolRaises: invoking the tool
\* raises; the except clause keeps the exception from the caller
move_qualified_resume(file_path, score, output_dir, toolRaises, fs) ==
  LET result == move_filtered_resumes(file_path, output_dir, score, fs)
  IN [raised |-> FALSE,
      events |-> << Event("place", file_path, score,
                          IF toolRaises THEN "raised" ELSE result.status,
                          <<>>,
                          IF toolRaises THEN <<>>
                          ELSE result.destination) >>]

\* a loop body that takes the score back when the placement fails
score_one_dropping(resume, metadata, dict, llm, toolRaises, fs) ==
  LET r == calculate_score(llm)
      rate == Event("rate", resume.file_path, r.score,
                    IF llm.raises \/ r.raised THEN "raised" ELSE "ok",
                    llm.content, <<>>)
      record == Event("record", resume.file_path, r.score, "ok",
                      <<>>, <<>>)
      compare == Event("compare", resume.file_path, r.score,
                       IF Qualifies(r.score, metadata) THEN "above"
                       ELSE "not above", <<>>, <<>>)
      output_dir == MetaGet(metadata, "output_dir", FilteredResumes)
      mv == move_qualified_resume(resume.file_path, r.score, output_dir,
                                  toolRaises, fs)
  IN IF r.raised
     THEN [scores_dict |-> dict, events |-> <<rate>>]
     ELSE IF Qualifies(r.score, metadata)
     THEN [scores_dict |-> IF mv.events[1].status = "success"
                           THEN DictSet(dict, resume.file_path, r.score)
                           ELSE dict,
           events |-> <<rate, record, compare>> \o mv.events]
     ELSE [scores_dict |-> DictSet(dict, resume.file_path, r.score),
           events |-> <<rate, record, compare>>]

\* the body of the loop of Coordinator.process for one resume: the new
\* scores_dict and the events, in the order of the statements
score_one(resume, metadata, dict, llm, toolRaises, fs) ==
  LET r == calculate_score(llm)
      rate == Event("rate", resume.file_path, r.score,
                    IF llm.raises \/ r.raised THEN "raised" ELSE "ok",
                    llm.content, <<>>)
      record == Event("record", resume.file_path, r.score, "ok",
                      <<>>, <<>>)
      compare == Event("compare", resume.file_path, r.score,
                       IF Qualifies(r.score, metadata) THEN "above"
                       ELSE "not above", <<>>, <<>>)
      output_dir == MetaGet(metadata, "output_dir", FilteredResumes)
      mv == move_qualified_resume(resume.file_path, r.score, output_dir,
                                  toolRaises, fs)
  IN IF r.raised
     THEN [scores_dict |-> dict, events |-> <<rate>>]
     ELSE IF Qualifies(r.score, metadata)
     THEN [scores_dict |-> DictSet(dict, resume.file_path, r.score),
           events |-> <<rate, record, compare>> \o mv.events]
     ELSE [scores_dict |-> DictSet(dict, resume.file_path, r.score),
           events |-> <<rate, record, compare>>]

\* an iteration that places the resume before it records the score
ScoreResume_placing_first ==
  /\ pc = "scoring"
  /\ idx <= Len(state.resumes)
  /\ \E llm \in LLMOutcomes, toolRaises \in BOOLEAN, fs \in FsOutcomes :
       LET r == score_one(state.resumes[idx], state.metadata, scores_dict,
                          llm, toolRaises, fs)
           n == Len(r.events)
       IN /\ scores_dict' = r.scores_dict
          /\ events' = events \o [k \in 1..n |-> r.events[n + 1 - k]]
  /\ idx' = idx + 1
  /\ UNCHANGED <<avars, pvars, pc, state, returned, qualified_count, escaped,
                 stageRaised, failed, ran>>

\* one iteration of the loop of Coordinator.process
ScoreResume ==
  /\ pc = "scoring"
  /\ idx <= Len(state.resumes)
  /\ \E llm \in LLMOutcomes, toolRaises \in BOOLEAN, fs \in FsOutcomes :
       LET r == score_one(state.resumes[idx], state.metadata, scores_dict,
                          llm, toolRaises, fs)
       IN /\ scores_dict' = r.scores_dict
          /\ events' = events \o r.events
  /\ idx' = idx + 1
  /\ UNCHANGED <<avars, pvars, pc, state, returned, qualified_count, escaped,
                 stageRaised, failed, ran>>

\* the return of Coordinator.process after its loop
CoordinatorReturn ==
  /\ pc = "scoring"
  /\ idx > Len(state.resumes)
  /\ AfterStage(
       [state |-> model_copy(state,
          [scores |-> scores_dict,
           metadata |-> Put(state.metadata, "scoring_results",
                            scoring_results(state.resumes, scores_dict))]),
        raised |-> FALSE], NextNode("score_and_move"))
  /\ UNCHANGED <<avars, pvars, scores_dict, idx, events, returned,
                 qualified_count, escaped, failed, ran>>

\* sum(1 for score in scores.values() if score >= threshold)
CountQualified(scores, threshold) ==
  Cardinality({i \in DOMAIN scores : PyGeq(scores[i][2], threshold)})

\* invoke after the graph has run: "dict" (the graph returned the final
\* state as a dict), "other" (it returned something else), "raises" (the
\* graph or the validation of its result raised)
Wrap ==
  /\ pc = "wrap"
  /\ \E graph \in {"dict", "other", "raises"} :
       CASE graph = "dict" ->
              /\ returned' = state
              /\ qualified_count' =
                   CountQualified(state.scores,
                     MetaGet(state.metadata, "score_threshold",
                             Num(DEFAULT_THRESHOLD)))
              /\ pc' = "done"
         [] graph = "other" ->
              /\ returned' = DefaultAgentState
              /\ pc' = "done"
              /\ UNCHANGED qualified_count
         [] graph = "raises" ->
              /\ pc' = "except"
              /\ UNCHANGED <<returned, qualified_count>>
  /\ UNCHANGED <<avars, pvars, state, scores_dict, idx, events, escaped,
                 stageRaised, failed, ran>>

\* an except clause that raises again
invoke_reraise == [returned |-> DefaultAgentState, escaped |-> TRUE]

\* the except clause of invoke: what the caller gets
invoke_except == [returned |-> DefaultAgentState, escaped |-> FALSE]

InvokeExcept ==
  /\ pc = "except"
  /\ returned' = invoke_except.returned
  /\ escaped' = invoke_except.escaped
  /\ failed' = TRUE
  /\ pc' = "done"
  /\ UNCHANGED <<avars, pvars, state, scores_dict, idx, events, qualified_count,
                 stageRaised, ran>>

Next ==
  \/ ThresholdCheck
  \/ ParseJD
  \/ ProcessResumes
  \/ CoordinatorEnter
  \/ ScoreResume
  \/ CoordinatorReturn
  \/ Wrap
  \/ InvokeExcept

Spec == Init /\ [][Next]_vars

\* invoke is one synchronous call: the interpreter keeps running it
FairSpec == Spec /\ WF_vars(Next)

(* -------- the parser called on its own or by the workflow ------------- *)

InitScores == Init \/ ParseInit

NextScores == Next \/ ParseScore

SpecScores == InitScores /\ [][NextScores]_vars

(* ----------------------- fastapi_backend.app -------------------------- *)

\* the job ids uuid4 gives, in the order of their creation
JobIds == <<"job1", "job2">>

\* tasks that process_job may schedule in all
MaxRuns == 2

\* requests served in all
MaxRequests == 6

TEMP_DIR == "temp/"

OUTPUT_DIR == "filtered_resumes/"

\* the folder paths of the requests: one that exists at the start, one
\* that does not
RequestFolders == {"shared", "missing"}

\* ProcessRequest.threshold, in tenths
RequestThresholds == {Num(500)}

\* JobStatus.create_job; results None is the empty mapping, falsy as None
create_job(js, job_id) ==
  Put(js, job_id, [status |-> "pending", results |-> NoMetadata])

\* JobStatus.update_job
update_job(js, job_id, status, results) ==
  IF job_id \in DOMAIN js
  THEN Put(js, job_id,
           [status |-> status,
            results |-> IF results # NoMetadata THEN results
                        ELSE js[job_id].results])
  ELSE js

\* a task keeps the results dict it read from the job when the job is
\* given another dict
Detached(rs, js, job_id) ==
  [i \in DOMAIN rs |->
     IF rs[i].job_id = job_id /\ rs[i].alias
     THEN [rs[i] EXCEPT !.alias = FALSE, !.results = js[job_id].results]
     ELSE rs[i]]

\* the except clause of a handler or of process_ats_job
Fails(job_id) ==
  /\ jobs' = update_job(jobs, job_id, "error", [error |-> "str(e)"])
  /\ runs' = Detached(runs, jobs, job_id)

\* job_info["results"][key] = value; update_job(job_id, status, the dict)
Stores(job_id, status, key, value) ==
  /\ jobs' = update_job(jobs, job_id, status,
                        Put(jobs[job_id].results, key, value))
  /\ UNCHANGED runs

\* one more request is served
Serve == served < MaxRequests /\ served' = served + 1

\* the answer to the request: 200, or the status code of the HTTPException
Responds(request, job_id, status_code) ==
  response' = [request |-> request, job_id |-> job_id,
               status_code |-> status_code]

\* raise HTTPException(status_code=404, detail="Job not found")
NotFound(request, job_id) ==
  /\ UNCHANGED <<jobs, runs, dirs>>
  /\ Responds(request, job_id, 404)

ApiInit ==
  /\ jobs = NoMetadata
  /\ runs = <<>>
  /\ dirs = {"shared"}
  /\ served = 0
  /\ response = NoResponse
  /\ ParserIdle
  /\ MoverIdle
  /\ JDParserIdle
  /\ WorkflowIdle

\* POST /upload/jd; saved: the file could be written
upload_jd ==
  /\ Serve
  /\ Cardinality(DOMAIN jobs) < Len(JobIds)
  /\ \E saved \in BOOLEAN :
       LET job_id == JobIds[Cardinality(DOMAIN jobs) + 1]
           created == create_job(jobs, job_id)
       IN IF saved
          THEN /\ jobs' = update_job(created, job_id, "jd_uploaded",
                            [jd_path |-> TEMP_DIR \o job_id \o "/jd.txt"])
               /\ Responds("upload_jd", job_id, 200)
          ELSE /\ jobs' = update_job(created, job_id, "error",
                                     [error |-> "str(e)"])
               /\ Responds("upload_jd", job_id, 500)
  /\ UNCHANGED <<runs, dirs, pvars, wvars>>

\* POST /upload/resumes and POST /upload/metadata; saved: the files could
\* be written
upload_files(request, sub, key, status) ==
  \E i \in DOMAIN JobIds, saved \in BOOLEAN :
    LET job_id == JobIds[i]
    IN IF job_id \notin DOMAIN jobs THEN NotFound(request, job_id)
       ELSE /\ IF saved
               THEN /\ Stores(job_id, status, key,
                              TEMP_DIR \o job_id \o sub)
                    /\ Responds(request, job_id, 200)
               ELSE /\ Fails(job_id)
                    /\ Responds(request, job_id, 500)
            /\ UNCHANGED dirs

upload_resumes ==
  /\ Serve
  /\ upload_files("upload_resumes", "/resumes", "resume_folder",
                  "resumes_uploaded")
  /\ UNCHANGED <<pvars, wvars>>

upload_metadata ==
  /\ Serve
  /\ upload_files("upload_metadata", "/metadata", "metadata_folder",
                  "metadata_uploaded")
  /\ UNCHANGED <<pvars, wvars>>

\* POST /set/resume_folder and POST /set/metadata_folder: the
\* HTTPException(400) for a missing folder is raised inside the try, whose
\* except clause raises HTTPException(500)
set_folder(request, key, status) ==
  \E i \in DOMAIN JobIds, folder_path \in RequestFolders :
    LET job_id == JobIds[i]
    IN IF job_id \notin DOMAIN jobs THEN NotFound(request, job_id)
       ELSE /\ IF folder_path \notin dirs
               THEN /\ Fails(job_id)
                    /\ Responds(request, job_id, 500)
               ELSE /\ Stores(job_id, status, key, folder_path)
                    /\ Responds(request, job_id, 200)
            /\ UNCHANGED dirs

set_resume_folder ==
  /\ Serve
  /\ set_folder("set_resume_folder", "resume_folder", "resumes_uploaded")
  /\ UNCHANGED <<pvars, wvars>>

set_metadata_folder ==
  /\ Serve
  /\ set_folder("set_metadata_folder", "metadata_folder",
                "metadata_uploaded")
  /\ UNCHANGED <<pvars, wvars>>

\* POST /set/output_dir; made: mkdir succeeded
set_output_dir ==
  /\ Serve
  /\ \E i \in DOMAIN JobIds, folder_path \in RequestFolders,
        made \in BOOLEAN :
       LET job_id == JobIds[i]
       IN IF job_id \notin DOMAIN jobs
          THEN NotFound("set_output_dir", job_id)
          ELSE IF made
          THEN /\ dirs' = dirs \cup {folder_path}
               /\ Stores(job_id, jobs[job_id].status, "output_dir",
                         folder_path)
               /\ Responds("set_output_dir", job_id, 200)
          ELSE /\ Fails(job_id)
               /\ UNCHANGED dirs
               /\ Responds("set_output_dir", job_id, 500)
  /\ UNCHANGED <<pvars, wvars>>

\* a task added by background_tasks.add_task(process_ats_job, ...)
NewRun(job_id, threshold) ==
  [job_id |-> job_id, threshold |-> threshold, pc |-> "scheduled",
   alias |-> FALSE, results |-> NoMetadata, metadata |-> NoMetadata,
   scores |-> EmptyDict]

\* the statuses for which process_job answers without scheduling
NotScheduled == {"processing", "completed"}

\* POST /process
process_job ==
  /\ Serve
  /\ Len(runs) < MaxRuns
  /\ \E i \in DOMAIN JobIds, threshold \in RequestThresholds :
       LET job_id == JobIds[i]
       IN IF job_id \notin DOMAIN jobs THEN NotFound("process_job", job_id)
          ELSE IF jobs[job_id].status \in NotScheduled
          THEN /\ UNCHANGED <<jobs, runs, dirs>>
               /\ Responds("process_job", job_id, 200)
          ELSE IF \/ "jd_path" \notin DOMAIN jobs[job_id].results
                  \/ "resume_folder" \notin DOMAIN jobs[job_id].results
          THEN /\ UNCHANGED <<jobs, runs, dirs>>
               /\ Responds("process_job", job_id, 400)
          ELSE /\ runs' = Append(runs, NewRun(job_id, threshold))
               /\ jobs' = update_job(jobs, job_id, "queued", NoMetadata)
               /\ UNCHANGED dirs
               /\ Responds("process_job", job_id, 200)
  /\ UNCHANGED <<pvars, wvars>>

\* the local variable results of a task: the job's dict while they are one
\* object
RunResults(r) == IF r.alias THEN jobs[r.job_id].results ELSE r.results

\* a task that has returned: its locals are gone
Returned(r) == [NewRun(r.job_id, r.threshold) EXCEPT !.pc = "done"]

\* process_ats_job up to update_job(job_id, "processing")
RunStart ==
  \E i \in DOMAIN runs :
    /\ runs[i].pc = "scheduled"
    /\ IF jobs[runs[i].job_id].results = NoMetadata
       THEN /\ jobs' = update_job(jobs, runs[i].job_id, "error",
                                  [error |-> "Invalid job data"])
            /\ runs' = [Detached(runs, jobs, runs[i].job_id)
                          EXCEPT ![i] = Returned(runs[i])]
       ELSE /\ jobs' = update_job(jobs, runs[i].job_id, "processing",
                                  NoMetadata)
            /\ runs' = [runs EXCEPT ![i].pc = "started", ![i].alias = TRUE]
    /\ UNCHANGED <<dirs, served, response, pvars, wvars>>

\* the scores ATSWorkflow.invoke returns for the initial state that
\* process_ats_job builds: the state has no jd_content, the three stages
\* run over it; the ratings are 60, 75 or 80
invoke_scores(metadata) ==
  LET s0 == [DefaultAgentState EXCEPT
               !.metadata = checked_metadata(metadata)]
      s1 == JDProcessor_process(s0, TRUE).state
      s2 == ResumeProcessor_process(
              s1, [status |-> "success", files |-> <<R1, R2>>],
              FALSE).state
  IN IF MissingData(s2) THEN {EmptyDict}
     ELSE {<<<<R1, a>>, <<R2, b>>>> : a, b \in {600, 750, 800}}

\* process_ats_job from the output directory to the return of invoke;
\* made: mkdir of the default output directory succeeded
RunInvoke ==
  \E i \in DOMAIN runs, made \in BOOLEAN :
    LET r == runs[i]
        results == RunResults(r)
        job_output_dir == IF "output_dir" \in DOMAIN results
                          THEN results["output_dir"]
                          ELSE OUTPUT_DIR \o r.job_id
        metadata ==
          [resume_folder |-> MetaGet(results, "resume_folder", None),
           metadata_folder |-> MetaGet(results, "metadata_folder", None),
           jd_path |-> MetaGet(results, "jd_path", None),
           score_threshold |-> r.threshold,
           output_dir |-> job_output_dir]
    IN /\ r.pc = "started"
       /\ IF "output_dir" \notin DOMAIN results /\ ~made
          THEN /\ jobs' = update_job(jobs, r.job_id, "error",
                                     [error |-> "str(e)"])
               /\ runs' = [Detached(runs, jobs, r.job_id)
                             EXCEPT ![i] = Returned(r)]
          ELSE /\ \E scores \in invoke_scores(metadata) :
                    runs' = [runs EXCEPT ![i].pc = "invoked",
                                         ![i].metadata = metadata,
                                         ![i].scores = scores]
               /\ UNCHANGED jobs
       /\ UNCHANGED <<dirs, served, response, pvars, wvars>>

\* process_ats_job after invoke: the results of the completed job
RunComplete ==
  \E i \in DOMAIN runs :
    LET r == runs[i]
    IN /\ r.pc = "invoked"
       /\ jobs' = update_job(jobs, r.job_id, "completed",
                    [scores |-> r.scores,
                     qualified_count |-> CountQualified(r.scores,
                                                        r.threshold),
                     total_count |-> Len(r.scores),
                     output_dir |-> r.metadata["output_dir"],
                     threshold |-> r.threshold,
                     scoring_results |-> <<>>])
       /\ runs' = [Detached(runs, jobs, r.job_id) EXCEPT ![i] = Returned(r)]
       /\ UNCHANGED <<dirs, served, response, pvars, wvars>>

ApiNext ==
  \/ upload_jd
  \/ upload_resumes
  \/ upload_metadata
  \/ set_resume_folder
  \/ set_metadata_folder
  \/ set_output_dir
  \/ process_job
  \/ RunStart
  \/ RunInvoke
  \/ RunComplete

SpecApi == ApiInit /\ [][ApiNext]_vars

(* ============================ properties ============================== *)

RateEvents == SelectSeq(events, LAMBDA e : e.ev = "rate")

PlaceEvents == SelectSeq(events, LAMBDA e : e.ev = "place")

\* Coordinator.process has returned from a batch it scored
CoordinatorDone ==
  /\ pc \in {"wrap", "except", "done"}
  /\ state.jd_content \notin {None, ""}
  /\ state.resumes # <<>>

\* C1: when the rating call raises for a resume of a batch, that resume is
\* recorded with the score 0.0, and every resume of the batch has been
\* rated and recorded with the score parsed from its own response: the
\* batch is never cut short.
C1_RatingFailureIsolated ==
  CoordinatorDone =>
    /\ Len(RateEvents) = Len(state.resumes)
    /\ \A i \in DOMAIN state.resumes :
         LET fp == state.resumes[i].file_path
             e == RateEvents[i]
         IN /\ e.file = fp
            /\ fp \in DictKeys(state.scores)
            /\ e.status = "raised" => DictGet(state.scores, fp) = 0
            /\ e.status = "ok" =>
                 DictGet(state.scores, fp) =
                   parse_score_from_response(e.content)

C1_Witness ==
  /\ CoordinatorDone
  /\ \E i, j \in DOMAIN RateEvents :
       /\ i < j
       /\ RateEvents[i].status = "raised"
       /\ RateEvents[j].status = "ok"
       /\ DictGet(state.scores, RateEvents[i].file) = 0
       /\ DictGet(state.scores, RateEvents[j].file) = 800

\* C2: a placement is attempted for a scored resume if and only if its
\* score is strictly greater than the threshold held in
\* metadata['score_threshold'], for every threshold in [0, 100].
C2_PlacedIffAboveThreshold ==
  CoordinatorDone =>
    LET threshold == state.metadata["score_threshold"]
    IN (threshold.kind = "num" /\ threshold.v \in 0..1000) =>
         \A i \in DOMAIN state.resumes :
           LET fp == state.resumes[i].file_path
           IN (\E k \in DOMAIN PlaceEvents : PlaceEvents[k].file = fp)
                <=> (fp \in DictKeys(state.scores)
                     /\ DictGet(state.scores, fp) > threshold.v)

\* C3: a run of the three stages over a readable job description and a
\* non-empty batch of resumes returns a scores mapping with exactly one
\* entry per resume, holding the score of its rating, and exactly the
\* resumes scoring above the threshold get one placement call each.
C3_EndToEnd ==
  (/\ pc = "done"
   /\ ~failed
   /\ returned.resumes # <<>>
   /\ returned.metadata["jd_path"] \in ReadableFiles) =>
    LET threshold == returned.metadata["score_threshold"]
        files == {returned.resumes[i].file_path :
                    i \in DOMAIN returned.resumes}
    IN /\ Len(returned.scores) = Len(returned.resumes)
       /\ DictKeys(returned.scores) = files
       /\ \A fp \in files :
            /\ \E k \in DOMAIN RateEvents :
                 /\ RateEvents[k].file = fp
                 /\ RateEvents[k].score = DictGet(returned.scores, fp)
            /\ Cardinality({k \in DOMAIN PlaceEvents :
                              PlaceEvents[k].file = fp}) =
                 IF threshold.kind = "num"
                    /\ DictGet(returned.scores, fp) > threshold.v
                 THEN 1 ELSE 0

ScoreInRange(s) == s \in 0..1000

\* C4: _parse_score_from_response returns a number in [0, 100] for every
\* response text, and every value of the scores mapping of the pipeline
\* is a number in [0, 100].
C4_ScoresInRange ==
  /\ ppc = "returned" => ScoreInRange(pscore)
  /\ \A i \in DOMAIN scores_dict : ScoreInRange(scores_dict[i][2])
  /\ \A i \in DOMAIN state.scores : ScoreInRange(state.scores[i][2])
  /\ \A i \in DOMAIN returned.scores : ScoreInRange(returned.scores[i][2])

C4_Witness ==
  /\ pc = "done"
  /\ \E k \in DOMAIN RateEvents :
       /\ RateEvents[k].content = TxtFinal110
       /\ RateEvents[k].file \in DictKeys(returned.scores)
       /\ DictGet(returned.scores, RateEvents[k].file) = 1000

MatchingPatterns(text) ==
  {i \in DOMAIN patterns : re_search(patterns[i], text).ok}

\* the number pattern i captures in text, in tenths, limited to [0, 100]
CapturedBy(i, text) ==
  LET n == DecimalValue(Group1(text, re_search(patterns[i], text)))
  IN 10 * (IF n > 100 THEN 100 ELSE n)

\* C5: the result is the number captured by the first pattern of the list
\* that matches anywhere in the text, limited to [0, 100], and 0.0 when no
\* pattern matches; 'Score: 92/100' gives 92.0, 'Final Score: 110' gives
\* 100.0 and 'no numbers here' gives 0.0.
C5_FirstPatternWins ==
  ppc = "returned" =>
    /\ IF MatchingPatterns(ptext) = {} THEN pscore = 0
       ELSE \E i \in MatchingPatterns(ptext) :
              /\ \A j \in MatchingPatterns(ptext) : i <= j
              /\ pscore = CapturedBy(i, ptext)
    /\ ptext = TxtScore92 => pscore = 920
    /\ ptext = TxtFinal110 => pscore = 1000
    /\ ptext = TxtNoNumbers => pscore = 0

C5_Witness ==
  /\ ppc = "returned"
  /\ \E i, j \in MatchingPatterns(ptext) :
       /\ \A k \in MatchingPatterns(ptext) : i <= k
       /\ i < j
       /\ CapturedBy(i, ptext) # CapturedBy(j, ptext)
       /\ pscore = CapturedBy(i, ptext)

\* C6: a successful move_filtered_resumes puts the file at destination_dir
\* / name, where name is the score with exactly one decimal, '_' in place
\* of the decimal point, then '_' and the base name of the source; 83.5 and
\* jane_doe.pdf give 83_5_jane_doe.pdf, 80.0 and r1.pdf give 80_0_r1.pdf.
C6_DestinationName ==
  (mpc = "returned" /\ mresult.status = "success") =>
    /\ mresult.destination =
         mcall.dest \o <<"/">> \o DecimalDigits(mcall.score \div 10)
           \o <<"_", DigitChar(mcall.score % 10), "_">>
           \o PathName(mcall.source)
    /\ (mcall.score = 835 /\ mcall.source \in {R3, JaneDoe}
        /\ mcall.dest = OutDir) =>
         mresult.destination =
           <<"o", "u", "t", "/", "8", "3", "_", "5", "_", "j", "a", "n",
             "e", "_", "d", "o", "e", ".", "p", "d", "f">>
    /\ (mcall.score = 800 /\ mcall.source = R1 /\ mcall.dest = OutDir) =>
         mresult.destination =
           <<"o", "u", "t", "/", "8", "0", "_", "0", "_", "r", "1", ".",
             "p", "d", "f">>

C6_Witness ==
  /\ mpc = "returned"
  /\ mresult.status = "success"
  /\ mcall.score = 835
  /\ mcall.source = R3
  /\ mcall.dest = OutDir

\* C7: after the threshold check of invoke, metadata['score_threshold'] is
\* a number in [0, 100]: 75.0 when none was supplied, when the supplied
\* value is not numeric or lies below 0 or above 100, and the supplied
\* value otherwise.
C7_ThresholdChecked ==
  [][pc = "invoke" =>
       LET after == state'.metadata["score_threshold"]
           given == "score_threshold" \in DOMAIN state.metadata
           supplied == state.metadata["score_threshold"]
       IN /\ after.kind = "num"
          /\ after.v \in 0..1000
          /\ IF ~given THEN after = Num(750)
             ELSE IF supplied.kind = "str" THEN after = Num(750)
             ELSE IF supplied.kind = "num"
                     /\ (supplied.v < 0 \/ supplied.v > 1000)
             THEN after = Num(750)
             ELSE after = supplied]_vars

\* every key of the old metadata is in the new one, with its value
MetadataKept(old, new) ==
  \A k \in DOMAIN old : k \in DOMAIN new /\ new[k] = old[k]

\* C8: each stage returns its incoming state with only the fields of its
\* own concern replaced, and its metadata keeps every key and value it
\* had: parse_jd keeps resumes and scores, process_resumes keeps
\* jd_content and scores, score_and_move keeps jd_content and resumes.
C8_StagesKeepOtherFields ==
  [][/\ pc = "parse_jd" =>
          /\ state'.resumes = state.resumes
          /\ state'.scores = state.scores
          /\ state'.input = state.input
          /\ MetadataKept(state.metadata, state'.metadata)
     /\ pc = "process_resumes" =>
          /\ state'.jd_content = state.jd_content
          /\ state'.scores = state.scores
          /\ state'.input = state.input
          /\ MetadataKept(state.metadata, state'.metadata)
     /\ pc \in {"score_and_move", "scoring"} =>
          /\ state'.jd_content = state.jd_content
          /\ state'.resumes = state.resumes
          /\ state'.input = state.input
          /\ MetadataKept(state.metadata, state'.metadata)]_vars

C8_Witness ==
  /\ pc = "wrap"
  /\ state.jd_content = JDText
  /\ state.resumes # <<>>
  /\ state.scores # EmptyDict
  /\ "scoring_results" \in DOMAIN state.metadata
  /\ "metadata_folder" \in DOMAIN state.metadata

\* C9: reached with jd_content missing or empty, or with no resumes,
\* score_and_move returns the incoming state with scores set to the empty
\* mapping and nothing else changed, rates and places nothing, and does not
\* raise.
C9_ShortCircuit ==
  [][(/\ pc = "score_and_move"
      /\ \/ state.jd_content = None
         \/ state.jd_content = ""
         \/ Len(state.resumes) = 0) =>
       /\ state' = [state EXCEPT !.scores = EmptyDict]
       /\ events' = events
       /\ pc' = "wrap"
       /\ stageRaised' = FALSE]_vars

C9_Witness ==
  /\ pc = "wrap"
  /\ state.jd_content = None
  /\ state.resumes # <<>>
  /\ state.scores = EmptyDict
  /\ events = <<>>

AgentStateFields == {"jd_content", "resumes", "scores", "metadata", "input"}

\* C10: no exception leaves invoke or a stage: every stage returns a
\* state, and the caller of invoke receives an AgentState, whose scores
\* mapping is empty when invoke went through its except clause.
C10_NothingEscapes ==
  /\ ~escaped
  /\ ~stageRaised
  /\ DOMAIN state = AgentStateFields
  /\ pc = "done" =>
       /\ DOMAIN returned = AgentStateFields
       /\ failed => returned.scores = EmptyDict

C10_Witness ==
  /\ pc = "done"
  /\ failed
  /\ returned.scores = EmptyDict
  /\ state.scores # EmptyDict

\* the nodes of the graph in the order of its edges
StageOrder == <<"parse_jd", "process_resumes", "score_and_move">>

\* C11: in every run the nodes run in the order parse_jd, process_resumes,
\* score_and_move, each exactly once whatever the stages return: at any
\* moment the nodes that have run are the nodes before the current one, in
\* order, none skipped, none twice; and the run ends, with all three run.
C11_StagesInOrder ==
  /\ [](/\ ran = SubSeq(StageOrder, 1, Len(ran))
        /\ pc = "parse_jd" => Len(ran) = 0
        /\ pc = "process_resumes" => Len(ran) = 1
        /\ pc = "score_and_move" => Len(ran) = 2
        /\ pc \in {"scoring", "wrap", "except", "done"} => Len(ran) = 3)
  /\ <>(pc = "done" /\ ran = StageOrder)

C11_Witness ==
  /\ pc = "done"
  /\ ran = StageOrder
  /\ returned.jd_content = JDText
  /\ returned.resumes # <<>>
  /\ returned.scores # EmptyDict

\* the audit list of the state the coordinator returned
AuditList == state.metadata["scoring_results"]

\* C12: after Coordinator.process over a non-empty batch the audit list
\* metadata['scoring_results'] has exactly one entry per resume, in the
\* order of the batch, and entry i holds the file_path of resume i and the
\* score that scores holds for that file_path.
C12_AuditListInOrder ==
  CoordinatorDone =>
    /\ "scoring_results" \in DOMAIN state.metadata
    /\ Len(AuditList) = Len(state.resumes)
    /\ \A i \in DOMAIN state.resumes :
         LET fp == state.resumes[i].file_path
         IN /\ AuditList[i].file_path = fp
            /\ fp \in DictKeys(state.scores)
            /\ AuditList[i].score = DictGet(state.scores, fp)

C12_Witness ==
  /\ CoordinatorDone
  /\ Len(state.resumes) = 2
  /\ Len(AuditList) = 2
  /\ AuditList[1].file_path = state.resumes[1].file_path
  /\ AuditList[1].score = 600
  /\ AuditList[2].score = 800

\* the fields the audit entries of Coordinator.process are built with
AuditEntryFields == {"file_path", "score", "metadata"}

CompareEvents == SelectSeq(events, LAMBDA e : e.ev = "compare")

\* the rating or the placement of the resume failed
FailedFor(fp) ==
  \/ \E k \in DOMAIN RateEvents :
       RateEvents[k].file = fp /\ RateEvents[k].status = "raised"
  \/ \E k \in DOMAIN PlaceEvents :
       PlaceEvents[k].file = fp /\ PlaceEvents[k].status # "success"

\* C13: when the rating call or the placement fails for a resume, the
\* audit entry of that resume in metadata['scoring_results'] carries an
\* error annotation: something besides its file_path, score and metadata.
C13_ErrorAnnotated ==
  CoordinatorDone =>
    \A i \in DOMAIN state.resumes :
      FailedFor(state.resumes[i].file_path) =>
        /\ i \in DOMAIN AuditList
        /\ DOMAIN AuditList[i] \ AuditEntryFields # {}

\* C14: a placement that fails for a qualifying resume (the tool reports
\* an error or raises) leaves the score recorded for that resume in
\* scores, and every later resume of the batch is still rated, recorded,
\* and handed to the placement when its score passes the test.
C14_PlacementFailureIsolated ==
  CoordinatorDone =>
    \A i \in DOMAIN state.resumes :
      LET fp == state.resumes[i].file_path
      IN \A k \in DOMAIN PlaceEvents :
           (PlaceEvents[k].file = fp /\ PlaceEvents[k].status # "success")
           => /\ fp \in DictKeys(state.scores)
              /\ DictGet(state.scores, fp) = PlaceEvents[k].score
              /\ \A j \in DOMAIN state.resumes :
                   j > i =>
                     LET fq == state.resumes[j].file_path
                     IN /\ \E r \in DOMAIN RateEvents :
                             RateEvents[r].file = fq
                        /\ fq \in DictKeys(state.scores)
                        /\ \A c \in DOMAIN CompareEvents :
                             (CompareEvents[c].file = fq
                              /\ CompareEvents[c].status = "above")
                             => \E q \in DOMAIN PlaceEvents :
                                  PlaceEvents[q].file = fq

C14_Witness ==
  /\ CoordinatorDone
  /\ Len(PlaceEvents) = 2
  /\ PlaceEvents[1].status = "raised"
  /\ PlaceEvents[2].status = "success"
  /\ PlaceEvents[1].file = state.resumes[1].file_path
  /\ PlaceEvents[2].file = state.resumes[2].file_path
  /\ DictGet(state.scores, PlaceEvents[1].file) = 1000
  /\ DictGet(state.scores, PlaceEvents[2].file) = 800

\* C15: after parse_jd ran on a state whose metadata['jd_path'] names a
\* readable job description, the state holds the text read from the file
\* as jd_content, and its metadata holds a 'parsed_jd' entry besides every
\* key it had.
C15_ParseJDFillsState ==
  [][(/\ pc = "parse_jd"
      /\ "jd_path" \in DOMAIN state.metadata
      /\ state.metadata["jd_path"] \in ReadableFiles) =>
       /\ state'.jd_content = JDText
       /\ "parsed_jd" \in DOMAIN state'.metadata
       /\ MetadataKept(state.metadata, state'.metadata)]_vars

\* C16: clean_text is idempotent: over texts of replaced characters,
\* whitespace and ordinary characters, cleaning a cleaned text gives the
\* cleaned text back.
C16_CleanTextIdempotent ==
  Len(cleaned) = 2 => cleaned[2] = cleaned[1]

C16_Witness ==
  /\ Len(cleaned) = 2
  /\ jtext = <<"U+200B", " ", "U+2014">>
  /\ cleaned[1] = <<"-", "-">>
  /\ cleaned[2] = <<"-", "-">>

\* parse_job_description_content has returned its record
Parsed == jpc = "returned" /\ jresult.status = "success"

\* the non-empty lines of a section of a job description as it was given
WrittenLines(text, key) ==
  LET lines == splitlines(DictGetOr(split_sections(text), key, <<>>))
  IN SelectSeq([i \in DOMAIN lines |-> strip(lines[i])],
               LAMBDA line : line # <<>>)

\* the characters that open a bullet line
BulletGlyphs == {"-", "U+2022", "U+F0B7", "U+25CF"}

\* C17: for a job description whose KEY RESPONSIBILITIES: section is k
\* non-empty bullet lines, the record holds exactly k responsibilities, in
\* the order of the lines, each the text of its line without the bullet.
C17_OneEntryPerBulletLine ==
  Parsed =>
    LET lines == WrittenLines(jtext, SectionKeys.responsibilities)
    IN (lines # <<>> /\ \A i \in DOMAIN lines : lines[i][1] \in BulletGlyphs)
       => /\ Len(jresult.result.responsibilities) = Len(lines)
          /\ \A i \in DOMAIN lines :
               jresult.result.responsibilities[i]
                 = clean_text(Tail(lines[i]))

\* the year counts written after "<skill>:" in a text
YearsWritten(text, skill) ==
  {DecimalValue(SubSeq(text, p + Len(skill) + 3,
                       p + Len(skill) + 2
                         + RunLen(text, p + Len(skill) + 2, "digit"))) :
     p \in {q \in 0..(Len(text) - 1) :
              /\ LitAtIgnoreCase(text, q, skill \o <<":", " ">>)
              /\ RunLen(text, q + Len(skill) + 2, "digit") > 0}}

\* C18: a skill written several times with year counts ('Python: 5', then
\* 'Python: 3') has the greatest of the counts as its required_skills
\* value, and in a job description without any year count every skill
\* found in the vocabulary has the value 1.
C18_MaxYearsKept ==
  Parsed =>
    /\ \A v \in DOMAIN vocabulary :
         YearsWritten(jtext, vocabulary[v]) # {} =>
           /\ title(vocabulary[v]) \in DictKeys(jresult.result.required_skills)
           /\ DictGet(jresult.result.required_skills, title(vocabulary[v]))
                = SetMax(YearsWritten(jtext, vocabulary[v]))
    /\ (\A i \in DOMAIN jtext : ~IsDigit(jtext[i])) =>
         \A i \in DOMAIN jresult.result.required_skills :
           jresult.result.required_skills[i][2] = 1

\* the first line of a text, empty for the empty text
FirstLine(text) ==
  IF splitlines(text) = <<>> THEN <<>> ELSE splitlines(text)[1]

\* C19: the job title is decided by the first rule of the cascade that
\* matches, the last rule being the first line of the text when that is
\* shorter than 100 characters: the title is 'Undefined Role' only when
\* the first line has 100 characters or more.
C19_TitleCascade ==
  (Parsed /\ FirstLine(jtext) # <<>>) =>
    (jresult.result.job_title = UndefinedRole
       => Len(FirstLine(jtext)) >= 100)

SkillsFields == {"required_skills", "mentioned_terms"}

ResponsibilitiesFields == {"responsibilities", "qualifications"}

AllFields ==
  SkillsFields \cup ResponsibilitiesFields
    \cup {"job_title", "tech_stack", "parse_mode"}

\* the fields of a record that hold something taken from the text
Populated(result) ==
  {f \in DOMAIN result \ {"parse_mode"} :
     result[f] # <<>> /\ result[f] # UndefinedRole}

\* C20: with parse_mode 'skills' the record holds only the skills fields,
\* with 'responsibilities' only responsibilities and qualifications, with
\* 'full' every field; any other parse_mode is rejected.
C20_ProjectionByMode ==
  jpc = "returned" =>
    /\ jmode \notin {"full", "skills", "responsibilities"}
         <=> jresult.status = "rejected"
    /\ (Parsed /\ jmode = "skills") =>
         Populated(jresult.result) \subseteq SkillsFields
    /\ (Parsed /\ jmode = "responsibilities") =>
         Populated(jresult.result) \subseteq ResponsibilitiesFields
    /\ (Parsed /\ jmode = "full") => DOMAIN jresult.result = AllFields

\* ---- the section mapping (SpecSplit) ----

\* the offsets of text at which a recognized header starts
HeaderStarts(text) ==
  {p \in 0..(Len(text) - 1) :
     \E i \in DOMAIN headers : LitAtIgnoreCase(text, p, headers[i])}

\* the header that starts at offset p
HeaderIndexAt(text, p) ==
  CHOOSE i \in DOMAIN headers : LitAtIgnoreCase(text, p, headers[i])

\* the label of the header at offset p: lower case, without the colon
LabelAt(text, p) ==
  LET h == headers[HeaderIndexAt(text, p)]
  IN lower(SubSeq(h, 1, Len(h) - 1))

\* the text from the end of the header at p to the next header or the end
TextAfterHeader(text, p) ==
  LET later == {q \in HeaderStarts(text) : q > p}
      stop == IF later = {} THEN Len(text) ELSE SetMin(later)
  IN SubSeq(text, p + Len(headers[HeaderIndexAt(text, p)]) + 1, stop)

\* the labels are those of the headers found, in order of first
\* appearance, and each label holds content(text of its last occurrence)
SectionsAre(text, sections, trimmed) ==
  LET starts == HeaderStarts(text)
      first(k) == SetMin({p \in starts : LabelAt(text, p) = k})
      last(k) == SetMax({p \in starts : LabelAt(text, p) = k})
  IN /\ {sections[j][1] : j \in DOMAIN sections}
          = {LabelAt(text, p) : p \in starts}
     /\ \A j, k \in DOMAIN sections :
          j < k => first(sections[j][1]) < first(sections[k][1])
     /\ \A j \in DOMAIN sections :
          LET between == TextAfterHeader(text, last(sections[j][1]))
          IN sections[j][2] = IF trimmed THEN strip(between) ELSE between

\* C21 as stated: each header found maps to exactly the text between it
\* and the next header (or the end), the last occurrence winning
C21_SectionsAreTextBetween ==
  jpc = "returned" /\ jresult.status = "sections"
    => SectionsAre(jtext, jresult.sections, FALSE)

\* C21 amended: each header found (case-insensitively, in order of
\* appearance) maps to the text between it and the next header or the end
\* of the text with leading and trailing whitespace removed; a repeated
\* label holds its last occurrence; no header gives the empty mapping
C21_SectionsAreTrimmedTextBetween ==
  jpc = "returned" /\ jresult.status = "sections"
    => /\ SectionsAre(jtext, jresult.sections, TRUE)
       /\ HeaderStarts(jtext) = {} => jresult.sections = EmptyDict

\* a text with a label twice, with different contents: the mapping holds
\* the second
C21_Witness ==
  /\ jpc = "returned" /\ jresult.status = "sections"
  /\ \E p, r \in HeaderStarts(jtext) :
       /\ p < r
       /\ LabelAt(jtext, p) = LabelAt(jtext, r)
       /\ strip(TextAfterHeader(jtext, p)) # strip(TextAfterHeader(jtext, r))
       /\ DictGet(jresult.sections, LabelAt(jtext, r))
            = strip(TextAfterHeader(jtext, r))

\* ---- the qualified count of invoke (Spec) ----

\* C22: the qualified count computed for a finished run is the number of
\* resumes whose score is strictly greater than the threshold; a resume
\* scoring exactly the threshold is not counted.
C22_QualifiedCountStrict ==
  (pc = "done" /\ ~failed /\ returned = state) =>
    LET threshold == MetaGet(returned.metadata, "score_threshold",
                             Num(DEFAULT_THRESHOLD))
    IN threshold.kind = "num" =>
         qualified_count =
           Cardinality({i \in DOMAIN returned.scores :
                          returned.scores[i][2] > threshold.v})

\* ---- distinct destinations within a batch (SpecMove) ----

\* the scores the coordinator records are whole numbers of [0, 100]; with
\* them, scores with a decimal
BatchScores == {10 * n : n \in 0..100} \cup {5, 755, 835, 999}

\* C24: two resumes of a batch with distinct source file names get distinct
\* destination paths in the same destination folder, whatever their
\* scores in [0, 100].
C24_DistinctDestinations ==
  (mpc = "returned" /\ mresult.status = "success") =>
    \A other \in MoveSources, score \in BatchScores :
      PathName(other) # PathName(mcall.source) =>
        LET r == move_filtered_resumes(other, mcall.dest, score, "ok")
        IN r.status = "success" /\ r.destination # mresult.destination

\* a placement with another resume of the batch that has the same score
C24_Witness ==
  /\ mpc = "returned" /\ mresult.status = "success"
  /\ mcall.source = R1
  /\ mcall.score \in BatchScores
  /\ move_filtered_resumes(R2, mcall.dest, mcall.score, "ok").status
       = "success"

\* ---- the order of the steps for one resume (Spec) ----

\* C25: for every resume of Coordinator.process the rating (with the
\* parsing of its response) comes first, then the score is recorded, then
\* the comparison is made, then the placement is attempted: a comparison
\* or a placement never comes before the record of that resume's score.
C25_StepsInOrder ==
  \A k \in DOMAIN events :
    LET e == events[k]
    IN /\ e.ev = "rate" =>
            /\ k < Len(events)
            /\ events[k + 1].ev = "record"
       /\ e.ev = "record" =>
            /\ k > 1 /\ k < Len(events)
            /\ events[k - 1].ev = "rate"
            /\ events[k - 1].file = e.file
            /\ events[k - 1].score = e.score
            /\ events[k + 1].ev = "compare"
       /\ e.ev = "compare" =>
            /\ k > 1
            /\ events[k - 1].ev = "record"
            /\ events[k - 1].file = e.file
            /\ events[k - 1].score = e.score
       /\ e.ev = "place" =>
            /\ k > 1
            /\ events[k - 1].ev = "compare"
            /\ events[k - 1].file = e.file
            /\ events[k - 1].status = "above"

\* two resumes were rated, the second was placed
C25_Witness ==
  /\ Len(events) >= 7
  /\ events[Len(events)].ev = "place"
  /\ events[1].file # events[Len(events)].file

\* ---- the fallback of the score parser (SpecParse) ----

\* the offsets and lengths of the standalone integers of text: the runs
\* of one to three digits with no word character on either side
StandaloneIntegers(text) ==
  {r \in (0..(Len(text) - 1)) \X (1..3) :
     /\ r[1] + r[2] <= Len(text)
     /\ \A q \in (r[1] + 1)..(r[1] + r[2]) : IsDigit(text[q])
     /\ r[1] > 0 => ~IsWord(text[r[1]])
     /\ r[1] + r[2] < Len(text) => ~IsWord(text[r[1] + r[2] + 1])}

\* C26: when none of the four specific patterns matches, the result is the
\* last standalone integer of the response text, limited to [0, 100],
\* also when the text has several lines with integers on more than one.
C26_LastIntegerAnywhere ==
  (ppc = "returned"
   /\ \A i \in 1..4 : ~re_search(patterns[i], ptext).ok
   /\ StandaloneIntegers(ptext) # {}) =>
    LET last == CHOOSE r \in StandaloneIntegers(ptext) :
                  \A o \in StandaloneIntegers(ptext) : o[1] <= r[1]
        n == DecimalValue(SubSeq(ptext, last[1] + 1, last[1] + last[2]))
    IN pscore = 10 * (IF n > 100 THEN 100 ELSE n)

\* ---- the jobs of the web application (SpecApi) ----

\* the tasks that are between update_job(job_id, "processing") and their
\* return, with the metadata they gave to invoke
Running == {i \in DOMAIN runs : runs[i].pc = "invoked"}

C27_ScheduledOnce ==
  \A i, k \in DOMAIN runs : runs[i].job_id = runs[k].job_id => i = k

\* C28: a job whose status is 'processing' only changes to 'completed' or
\* 'error', and a job that is 'completed' keeps that status and the scores
\* and output_dir of its results, whatever request or task step comes
\* next.
C28_StatusOnlyAdvances ==
  [][\A j \in DOMAIN jobs :
       /\ jobs[j].status = "processing" =>
            jobs'[j].status \in {"processing", "completed", "error"}
       /\ jobs[j].status = "completed" =>
            /\ jobs'[j].status = "completed"
            /\ "scores" \in DOMAIN jobs'[j].results
            /\ jobs'[j].results["scores"] = jobs[j].results["scores"]
            /\ jobs'[j].results["output_dir"]
                 = jobs[j].results["output_dir"]]_vars

\* C30: a set_resume_folder or set_metadata_folder request that is
\* rejected, its folder not existing, leaves the status and the stored
\* results of the job as they were before the request.
C30_RejectedRequestKeepsJob ==
  [][(/\ served' = served + 1
      /\ response'.request \in {"set_resume_folder", "set_metadata_folder"}
      /\ response'.status_code # 200
      /\ response'.job_id \in DOMAIN jobs)
       => jobs'[response'.job_id] = jobs[response'.job_id]]_vars

\* ---- the qualified count and the placements (Spec) ----

====
